---------------------------- MODULE Spec2Model ----------------------------
(***************************************************************************)
(* Model of the binance-trading-helper trade cycle: the one-shot coin lock *)
(* (MarketManager.lock), the driver waiting on the condition variable      *)
(* (main), the buy -> eligibility check -> sell flow (MarketManager.start, *)
(* check_sell_eligibility, sell_coins) and the bailout path.               *)
(*                                                                         *)
(* Numbers.  The program computes with floats.  Every real quantity        *)
(* (price, quantity, notional) is represented here in fixed point with two *)
(* decimals: the integer 5000 stands for 50.00.  Percentages received from *)
(* the configuration (profit, stop) are whole percents.  float('inf') is   *)
(* the sentinel Inf.                                                       *)
(***************************************************************************)
EXTENDS Integers, Sequences, FiniteSets, TLC

(***************************************************************************)
(* Bounds of the model.                                                    *)
(***************************************************************************)
\* number of concurrent callers of MarketManager.lock (caller 1 is the
\* stdin thread, the others are HTTP requests)
NumCallers == 2
\* number of lock calls made in all
MaxCalls == 3

\* float('inf')
Inf == 1000000000

NoOne == 0
Driver == 100
Callers == 1..NumCallers
StdinCaller == 1

(***************************************************************************)
(* Fixed-point arithmetic (two decimals).                                  *)
(***************************************************************************)
Max(a, b) == IF a >= b THEN a ELSE b
Min(a, b) == IF a <= b THEN a ELSE b

\* a * b
FMul(a, b) == IF a = Inf \/ b = Inf THEN Inf ELSE (a * b) \div 100
\* a / b, b # 0
FDiv(a, b) == IF a = Inf THEN Inf ELSE (a * 100) \div b

RECURSIVE Pow10(_)
Pow10(n) == IF n = 0 THEN 1 ELSE 10 * Pow10(n - 1)

\* len(str(t)) - len(str(t).rstrip('0')) for an integer t > 0
RECURSIVE TrailingZeros(_)
TrailingZeros(t) == IF t % 10 # 0 THEN 0 ELSE 1 + TrailingZeros(t \div 10)

\* f'{val:.{decimals}f}': val rendered with <decimals> digits, rounded to the
\* nearest representable amount, ties to even; the result is the amount the
\* string denotes
ffmt(val, decimals) ==
    IF decimals >= 2 \/ val = Inf THEN val
    ELSE LET unit == Pow10(2 - decimals)
             lo   == (val \div unit) * unit
             rest == val - lo
         IN  IF 2 * rest < unit THEN lo
             ELSE IF 2 * rest > unit THEN lo + unit
             ELSE IF (lo \div unit) % 2 = 0 THEN lo ELSE lo + unit

(***************************************************************************)
(* Exchange metadata.  Step sizes are the 8-decimal strings of the         *)
(* exchange info, given as the integer they denote in units of 10^-8       *)
(* ("0.01000000" is 1000000).  Multipliers are fixed point (500 is 5.0).   *)
(***************************************************************************)
FilterTypes == {"PRICE_FILTER", "PERCENT_PRICE", "LOT_SIZE", "MARKET_LOT_SIZE",
                "MIN_NOTIONAL"}

ExchangeSymbols ==
    [AAA |->
       [symbol |-> "AAA", ocoAllowed |-> TRUE,
        baseAssetPrecision |-> 8, quoteAssetPrecision |-> 8,
        filters |->
          [PRICE_FILTER  |-> [minPrice |-> 1, maxPrice |-> 10000000, tickSize |-> 1000000],
           PERCENT_PRICE |-> [multiplierUp |-> 500, multiplierDown |-> 20],
           LOT_SIZE      |-> [minQty |-> 100, maxQty |-> 400, stepSize |-> 1000000],
           MIN_NOTIONAL  |-> [minNotional |-> 1000, applyToMarket |-> TRUE]]],
     BBB |->
       [symbol |-> "BBB", ocoAllowed |-> FALSE,
        baseAssetPrecision |-> 8, quoteAssetPrecision |-> 8,
        filters |->
          [LOT_SIZE        |-> [minQty |-> 300, maxQty |-> 100000, stepSize |-> 1000000],
           MARKET_LOT_SIZE |-> [minQty |-> 100, maxQty |-> 100000, stepSize |-> 0]]],
     USD |->
       [symbol |-> "USD", ocoAllowed |-> TRUE,
        baseAssetPrecision |-> 8, quoteAssetPrecision |-> 8,
        filters |->
          [PRICE_FILTER    |-> [minPrice |-> 1, maxPrice |-> 5400, tickSize |-> 10000000],
           LOT_SIZE        |-> [minQty |-> 100, maxQty |-> 100000, stepSize |-> 10000000],
           MARKET_LOT_SIZE |-> [minQty |-> 100, maxQty |-> 100000, stepSize |-> 10000000],
           MIN_NOTIONAL    |-> [minNotional |-> 1000, applyToMarket |-> FALSE]]]]

\* MarketManager.pairs: the tradable */<quote coin> pairs, by base asset
pairs == [b \in {"AAA", "BBB"} |-> ExchangeSymbols[b]]

\* coin names the input adapters may turn in
CoinNames == {"AAA", "BBB", "ZZZ"}


(***************************************************************************)
(* BinanceAPI: pair binding, tick sizes and bounds (src/api.py).           *)
(***************************************************************************)
NoFilters == [t \in {} |-> 0]

\* BinanceAPI.TickSizes.__init__
TickSizes == [price |-> 8, lot |-> 8, mkt_lot |-> 8]

Has(pf, t) == t \in DOMAIN pf

TickOfTrailingZeros(step, prec, old) ==
    LET tsize == IF prec >= 8 THEN step * Pow10(prec - 8)
                 ELSE step \div Pow10(8 - prec)
    IN  IF tsize = 0 THEN old ELSE TrailingZeros(tsize)

\* one tick of set_pair: tsize = int(float(step) * 10 ** prec); the tick is
\* left as it was when tsize is 0
TickOf(step, prec, old) ==
    LET tsize == IF prec >= 8 THEN step * Pow10(prec - 8)
                 ELSE step \div Pow10(8 - prec)
    IN  IF tsize = 0 THEN old ELSE prec - TrailingZeros(tsize)

\* BinanceAPI.set_pair: the filters of <p> are written over self.pfilt (which
\* is never emptied) and the ticks are derived from the resulting filter set
set_pair(pf, tk, p) ==
    LET pf2   == [t \in (DOMAIN pf) \cup (DOMAIN p.filters) |->
                    IF t \in DOMAIN p.filters THEN p.filters[t] ELSE pf[t]]
        qprec == p.quoteAssetPrecision
        bprec == p.baseAssetPrecision
        price == IF Has(pf2, "PRICE_FILTER")
                 THEN TickOf(pf2["PRICE_FILTER"].tickSize, qprec, tk.price)
                 ELSE tk.price
        lot   == IF Has(pf2, "LOT_SIZE")
                 THEN TickOf(pf2["LOT_SIZE"].stepSize, bprec, tk.lot)
                 ELSE tk.lot
        mkt   == IF Has(pf2, "MARKET_LOT_SIZE")
                 THEN TickOf(pf2["MARKET_LOT_SIZE"].stepSize, bprec, tk.mkt_lot)
                 ELSE lot
    IN  [pfilt |-> pf2, ticks |-> [price |-> price, lot |-> lot, mkt_lot |-> mkt]]

price_bound_margin_on_all(pf, avg) ==
    LET rel   == Has(pf, "PERCENT_PRICE")
        fix   == Has(pf, "PRICE_FILTER")
        dnlimit  == IF rel THEN FMul(avg, pf["PERCENT_PRICE"].multiplierDown) ELSE 0
        uplimit  == IF rel THEN FMul(avg, pf["PERCENT_PRICE"].multiplierUp) ELSE Inf
        dnflimit == IF fix THEN pf["PRICE_FILTER"].minPrice ELSE 0
        upflimit == IF fix THEN pf["PRICE_FILTER"].maxPrice ELSE Inf
    IN  [low  |-> FMul(105, Max(dnlimit, dnflimit)),
         high |-> FMul(95, Min(uplimit, upflimit))]

\* BinanceAPI.price_bound
price_bound(pf, avg) ==
    LET rel   == Has(pf, "PERCENT_PRICE")
        fix   == Has(pf, "PRICE_FILTER")
        dnlimit  == IF rel THEN FMul(avg, pf["PERCENT_PRICE"].multiplierDown) ELSE 0
        uplimit  == IF rel THEN FMul(avg, pf["PERCENT_PRICE"].multiplierUp) ELSE Inf
        dnflimit == IF fix THEN pf["PRICE_FILTER"].minPrice ELSE 0
        upflimit == IF fix THEN pf["PRICE_FILTER"].maxPrice ELSE Inf
    IN  [low  |-> Max(FMul(105, dnlimit), dnflimit),
         high |-> Min(FMul(95, uplimit), upflimit)]

\* the notional lower bound of qty_bound (api.py:100-105), price # 0
NotionalLimit(pf, price, market) ==
    IF Has(pf, "MIN_NOTIONAL") /\ ((market /\ pf["MIN_NOTIONAL"].applyToMarket) \/ ~market)
    THEN FMul(FDiv(pf["MIN_NOTIONAL"].minNotional, price), 105)
    ELSE 0

qty_bound_notional_only(pf, price, market) ==
    LET not_lim == NotionalLimit(pf, price, market)
    IN  IF market /\ Has(pf, "MARKET_LOT_SIZE")
        THEN [low |-> not_lim, high |-> pf["MARKET_LOT_SIZE"].maxQty]
        ELSE IF Has(pf, "LOT_SIZE")
        THEN [low |-> not_lim, high |-> pf["LOT_SIZE"].maxQty]
        ELSE [low |-> 0, high |-> Inf]

\* BinanceAPI.qty_bound, price # 0
qty_bound(pf, price, market) ==
    LET not_lim == NotionalLimit(pf, price, market)
    IN  IF market /\ Has(pf, "MARKET_LOT_SIZE")
        THEN [low  |-> Max(pf["MARKET_LOT_SIZE"].minQty, not_lim),
              high |-> pf["MARKET_LOT_SIZE"].maxQty]
        ELSE IF Has(pf, "LOT_SIZE")
        THEN [low  |-> Max(pf["LOT_SIZE"].minQty, not_lim),
              high |-> pf["LOT_SIZE"].maxQty]
        ELSE [low |-> 0, high |-> Inf]

\* qty_bound divides by <price> only when MIN_NOTIONAL applies
QtyBoundDividesByZero(pf, price, market) ==
    /\ price = 0
    /\ Has(pf, "MIN_NOTIONAL")
    /\ ((market /\ pf["MIN_NOTIONAL"].applyToMarket) \/ ~market)

\* BinanceAPI.market_order_status: the average fill price, executedQty # 0
RECURSIVE FillSumNoDivide(_, _)
RECURSIVE FillSum(_, _)
FillSumNoDivide(fills, bq) ==
    IF fills = <<>> THEN 0
    ELSE FMul(Head(fills).price, Head(fills).qty) + FillSumNoDivide(Tail(fills), bq)

FillSum(fills, bq) ==
    IF fills = <<>> THEN 0
    ELSE FDiv(FMul(Head(fills).price, Head(fills).qty), bq) + FillSum(Tail(fills), bq)

\* outcome of market_order_status on a response: "zerodiv" (float division by
\* zero), "zeroavg" (CException) or "ok" with (executedQty, avg_price)
market_order_status_unchecked(resp) ==
    IF resp.fills # <<>> /\ resp.executedQty = 0 THEN [kind |-> "zerodiv", qty |-> 0, price |-> 0]
    ELSE [kind |-> "ok", qty |-> resp.executedQty,
          price |-> FillSum(resp.fills, resp.executedQty)]

market_order_status(resp) ==
    IF resp.fills # <<>> /\ resp.executedQty = 0 THEN [kind |-> "zerodiv", qty |-> 0, price |-> 0]
    ELSE LET avg == FillSum(resp.fills, resp.executedQty)
         IN  IF avg = 0 THEN [kind |-> "zeroavg", qty |-> 0, price |-> 0]
             ELSE [kind |-> "ok", qty |-> resp.executedQty, price |-> avg]

(***************************************************************************)
(* Inputs of the environment.                                              *)
(***************************************************************************)
SellTypes == {"LIMIT", "MARKET", "HYBRID"}

\* Environment after setup(): strategy, bailout switch, profit and stop in %
\* (setup enforces -100 <= stop < profit)
Environments ==
    [sell_type : SellTypes, bailout : BOOLEAN, profit : {10}, stop : {-100, -5}]

\* quote amount to spend, MarketManager.qqty
QuoteQty == 10000

\* responses of the exchange to the market buy
BuyResponses ==
    { [executedQty |-> 200, fills |-> <<[price |-> 5000, qty |-> 200]>>],
      [executedQty |-> 500, fills |-> <<[price |-> 5000, qty |-> 500]>>],
      [executedQty |-> 200, fills |-> <<[price |-> 1000, qty |-> 100],
                                        [price |-> 2000, qty |-> 100]>>],
      [executedQty |-> 150, fills |-> <<[price |-> 500, qty |-> 150]>>],
      [executedQty |-> 157, fills |-> <<[price |-> 5000, qty |-> 157]>>],
      [executedQty |-> 0,   fills |-> <<>>] }

\* average trading prices reported to check_sell_eligibility
AvgPrices == {1100, 5000, 30000}

\* prices of the aggregated trade stream
TradePrices == {300, 4000, 4750, 5200, 5500, 5600}

\* order ids given by the exchange
OrderIds == {7}

\* executedQty values reported for the legs of a cancelled order
ExecutedQtys == {0, 100, 200}

(***************************************************************************)
(* State.                                                                  *)
(***************************************************************************)
VARIABLES
    env,            \* Environment (fixed after setup)
    \* MarketManager
    allow_bailout, use_oco, bqty, bprice, tprice, sprice, oid,
    mut1, locked, mut2, ready,
    \* BinanceAPI
    pair, pfilt, ticks,
    \* threads calling MarketManager.lock
    cpc, csym,
    \* main thread
    mpc, lprice, result,
    bpc,            \* the bailout() coroutine, once main has started it
    \* requests received by the exchange, in order
    sent,
    filled,         \* the exchange has filled the resting limit / OCO order
    \* history
    ncalls,         \* lock calls begun
    returns,        \* how the finished lock calls ended, per outcome
    badcalls,       \* lock calls begun with a coin that is no tradable pair
    locksets,       \* assignments locked = True
    nstart,         \* invocations of MarketManager.start
    nbailout,       \* invocations of MarketManager.bailout
    interrupts,     \* where the main thread was at each KeyboardInterrupt
    waited,         \* the main thread has blocked in cvar.wait()
    replies,        \* responses of the exchange, in order
    \* a function of BinanceAPI applied on its own
    fn,             \* the function and its arguments
    out             \* what it returned

mgrVars  == <<allow_bailout, use_oco, bqty, bprice, tprice, sprice, oid>>
lockVars == <<mut1, locked>>
cvVars   == <<mut2, ready>>
apiVars  == <<pair, pfilt, ticks>>
callVars == <<cpc, csym, ncalls, returns, badcalls, locksets>>
mainVars == <<mpc, bpc, lprice, result, nstart, nbailout, interrupts, waited>>
pureVars == <<fn, out>>
vars == <<env, mgrVars, lockVars, cvVars, apiVars, callVars, mainVars, sent, replies,
         filled, pureVars>>

\* the process (and with it the daemon threads) runs until main returns or raises
Alive == mpc # "exit"

\* BinanceAPI.__init__ followed by the set_pair calls of setup(): none, or the
\* <quote>/USD pair bound by quote_qty_from_usd
SetupApis ==
    { [pair |-> "none", pfilt |-> NoFilters, ticks |-> TickSizes],
      [pair |-> "USD"] @@ set_pair(NoFilters, TickSizes, ExchangeSymbols["USD"]) }

ProgramInit ==
    /\ env \in Environments
    /\ allow_bailout = FALSE /\ use_oco = FALSE
    /\ bqty = 0 /\ bprice = 0 /\ tprice = 0 /\ sprice = 0 /\ oid = 0
    /\ mut1 = NoOne /\ locked = FALSE
    /\ mut2 = NoOne /\ ready = FALSE
    /\ \E a \in SetupApis : pair = a.pair /\ pfilt = a.pfilt /\ ticks = a.ticks
    /\ cpc = [c \in Callers |-> "idle"]
    /\ csym = [c \in Callers |-> "none"]
    /\ ncalls = 0
    /\ mpc = "cv_acquire" /\ bpc = "none" /\ lprice = 0 /\ result = "running"
    /\ sent = <<>> /\ filled = FALSE
    /\ returns = [ok |-> 0, already |-> 0, invalid |-> 0]
    /\ badcalls = 0 /\ locksets = 0 /\ nstart = 0 /\ nbailout = 0
    /\ interrupts = <<>> /\ waited = FALSE
    /\ replies = <<>>

\* no function applied on its own
NotApplied == [kind |-> "none"]
Init == ProgramInit /\ fn = [name |-> "none"] /\ out = NotApplied

(***************************************************************************)
(* MarketManager.lock, called from coin_from_stdin (caller 1) and from     *)
(* HTTPCoinAcceptor.accept (the other callers).                            *)
(***************************************************************************)
\* threading.Lock.acquire blocks until the lock is free
CanAcquireAlways(holder) == TRUE
CanAcquire(holder) == holder = NoOne

\* the checks of lock() under mut1, in their order
InvalidFirst(isLocked, bcoin) ==
    IF bcoin \notin DOMAIN pairs THEN "invalid"
    ELSE IF isLocked THEN "already"
    ELSE "ok"
lock_outcome(isLocked, bcoin) ==
    IF isLocked THEN "already"
    ELSE IF bcoin \notin DOMAIN pairs THEN "invalid"
    ELSE "ok"

\* where the calling thread goes when its lock call ends with outcome <o>:
\* coin_from_stdin returns on success, asks again on InvalidPair and leaves its
\* loop on any other exception; the HTTP server answers and serves the next request
AfterCall(c, o) ==
    IF c = StdinCaller
    THEN CASE o = "ok" -> "done"
           [] o = "invalid" -> "idle"
           [] OTHER -> "exit_acquire"
    ELSE "idle"

\* cvar.notify(): wakes the thread waiting on the condition, if any
Notified(m) == IF m = "wait" THEN "woken" ELSE m

\* input() returned a coin name / a POST request arrived: lock(bcoin) is called
CallBegin(c, bcoin) ==
    /\ Alive /\ cpc[c] = "idle" /\ ncalls < MaxCalls
    /\ UNCHANGED <<filled, pureVars>>
    /\ cpc' = [cpc EXCEPT ![c] = "acquire"]
    /\ csym' = [csym EXCEPT ![c] = bcoin]
    /\ ncalls' = ncalls + 1
    /\ badcalls' = IF bcoin \in DOMAIN pairs THEN badcalls ELSE badcalls + 1
    /\ UNCHANGED <<env, mgrVars, lockVars, cvVars, apiVars, mainVars, sent,
                   returns, locksets, replies>>

\* self.mut1.acquire()
LockAcquire(c) ==
    /\ Alive /\ cpc[c] = "acquire"
    /\ UNCHANGED <<filled, pureVars>>
    /\ CanAcquire(mut1)
    /\ mut1' = c
    /\ cpc' = [cpc EXCEPT ![c] = "checks"]
    /\ UNCHANGED <<env, mgrVars, locked, cvVars, apiVars, mainVars, sent,
                   csym, ncalls, returns, badcalls, locksets, replies>>

\* the two checks under mut1: release and raise, or go on to take the lock
LockChecksKeepMutex(c) ==
    /\ Alive /\ cpc[c] = "checks"
    /\ UNCHANGED <<filled, pureVars>>
    /\ LET o == lock_outcome(locked, csym[c]) IN
         IF o = "ok"
         THEN /\ cpc' = [cpc EXCEPT ![c] = "take"]
              /\ UNCHANGED <<mut1, returns, csym>>
         ELSE /\ mut1' = IF o = "invalid" THEN mut1 ELSE NoOne
              /\ cpc' = [cpc EXCEPT ![c] = AfterCall(c, o)]
              /\ csym' = [csym EXCEPT ![c] = "none"]
              /\ returns' = [returns EXCEPT ![o] = @ + 1]
    /\ UNCHANGED <<env, mgrVars, locked, cvVars, apiVars, mainVars, sent, replies,
                   ncalls, badcalls, locksets>>
LockChecks(c) ==
    /\ Alive /\ cpc[c] = "checks"
    /\ UNCHANGED <<filled, pureVars>>
    /\ LET o == lock_outcome(locked, csym[c]) IN
         IF o = "ok"
         THEN /\ cpc' = [cpc EXCEPT ![c] = "take"]
              /\ UNCHANGED <<mut1, returns, csym>>
         ELSE /\ mut1' = NoOne
              /\ cpc' = [cpc EXCEPT ![c] = AfterCall(c, o)]
              /\ csym' = [csym EXCEPT ![c] = "none"]
              /\ returns' = [returns EXCEPT ![o] = @ + 1]
    /\ UNCHANGED <<env, mgrVars, locked, cvVars, apiVars, mainVars, sent, replies,
                   ncalls, badcalls, locksets>>

\* self.locked = True; self.mut1.release()
LockTake(c) ==
    /\ Alive /\ cpc[c] = "take"
    /\ UNCHANGED <<filled, pureVars>>
    /\ locked' = TRUE
    /\ locksets' = locksets + 1
    /\ mut1' = NoOne
    /\ cpc' = [cpc EXCEPT ![c] = "set_pair"]
    /\ UNCHANGED <<env, mgrVars, cvVars, apiVars, mainVars, sent, replies,
                   csym, ncalls, returns, badcalls>>

\* self.api.set_pair(self.pairs[bcoin])
LockSetPair(c) ==
    /\ Alive /\ cpc[c] = "set_pair"
    /\ UNCHANGED <<filled, pureVars>>
    /\ LET a == set_pair(pfilt, ticks, pairs[csym[c]]) IN
        /\ pair' = csym[c]
        /\ pfilt' = a.pfilt
        /\ ticks' = a.ticks
    /\ cpc' = [cpc EXCEPT ![c] = "use_oco"]
    /\ UNCHANGED <<env, mgrVars, lockVars, cvVars, mainVars, sent,
                   csym, ncalls, returns, badcalls, locksets, replies>>

\* self.use_oco = self.env.stop > -100 and self.api.pair['ocoAllowed']
LockUseOco(c) ==
    /\ Alive /\ cpc[c] = "use_oco"
    /\ UNCHANGED <<filled, pureVars>>
    /\ use_oco' = (env.stop > -100 /\ ExchangeSymbols[pair].ocoAllowed)
    /\ cpc' = [cpc EXCEPT ![c] = "cvar_acquire"]
    /\ UNCHANGED <<env, allow_bailout, bqty, bprice, tprice, sprice, oid,
                   lockVars, cvVars, apiVars, mainVars, sent,
                   csym, ncalls, returns, badcalls, locksets, replies>>

\* with self.cvar: (entry)
LockCvarAcquire(c) ==
    /\ Alive /\ cpc[c] = "cvar_acquire"
    /\ UNCHANGED <<filled, pureVars>>
    /\ CanAcquire(mut2)
    /\ mut2' = c
    /\ cpc' = [cpc EXCEPT ![c] = "notify"]
    /\ UNCHANGED <<env, mgrVars, lockVars, ready, apiVars, mainVars, sent,
                   csym, ncalls, returns, badcalls, locksets, replies>>

\* self.ready = True; self.cvar.notify(); the with block ends; lock returns
LockNotifyNoReady(c) ==
    /\ Alive /\ cpc[c] = "notify"
    /\ UNCHANGED <<filled, pureVars>>
    /\ UNCHANGED bpc
    /\ UNCHANGED ready
    /\ mpc' = Notified(mpc)
    /\ mut2' = NoOne
    /\ cpc' = [cpc EXCEPT ![c] = AfterCall(c, "ok")]
    /\ csym' = [csym EXCEPT ![c] = "none"]
    /\ returns' = [returns EXCEPT !.ok = @ + 1]
    /\ UNCHANGED <<env, mgrVars, lockVars, apiVars, lprice, result, nstart, nbailout,
                   interrupts, sent, ncalls, badcalls, locksets, replies, waited>>
LockNotify(c) ==
    /\ Alive /\ cpc[c] = "notify"
    /\ UNCHANGED <<filled, pureVars>>
    /\ UNCHANGED bpc
    /\ ready' = TRUE
    /\ mpc' = Notified(mpc)
    /\ mut2' = NoOne
    /\ cpc' = [cpc EXCEPT ![c] = AfterCall(c, "ok")]
    /\ csym' = [csym EXCEPT ![c] = "none"]
    /\ returns' = [returns EXCEPT !.ok = @ + 1]
    /\ UNCHANGED <<env, mgrVars, lockVars, apiVars, lprice, result, nstart, nbailout,
                   interrupts, sent, ncalls, badcalls, locksets, replies, waited>>

\* coin_from_stdin: input() raised (end of input): the loop is left
StdinEnd(c) ==
    /\ Alive /\ c = StdinCaller /\ cpc[c] = "idle"
    /\ UNCHANGED <<filled, pureVars>>
    /\ cpc' = [cpc EXCEPT ![c] = "exit_acquire"]
    /\ UNCHANGED <<env, mgrVars, lockVars, cvVars, apiVars, mainVars, sent,
                   csym, ncalls, returns, badcalls, locksets, replies>>

\* coin_from_stdin after its loop: with manager.cvar: (entry)
StdinExitAcquire(c) ==
    /\ Alive /\ cpc[c] = "exit_acquire"
    /\ UNCHANGED <<filled, pureVars>>
    /\ CanAcquire(mut2)
    /\ mut2' = c
    /\ cpc' = [cpc EXCEPT ![c] = "exit_notify"]
    /\ UNCHANGED <<env, mgrVars, lockVars, ready, apiVars, mainVars, sent,
                   csym, ncalls, returns, badcalls, locksets, replies>>

\* manager.cvar.notify() without ready; the thread ends
StdinExitNotify(c) ==
    /\ Alive /\ cpc[c] = "exit_notify"
    /\ UNCHANGED <<filled, pureVars>>
    /\ UNCHANGED bpc
    /\ mpc' = Notified(mpc)
    /\ mut2' = NoOne
    /\ cpc' = [cpc EXCEPT ![c] = "done"]
    /\ UNCHANGED <<env, mgrVars, lockVars, ready, apiVars, lprice, result, nstart,
                   nbailout, interrupts, waited, sent, replies, csym, ncalls, returns,
                   badcalls, locksets>>

(***************************************************************************)
(* main: waiting for the coin lock (main.py:355-360).                      *)
(***************************************************************************)
WaitPcs == {"cv_acquire", "cv_check", "cv_wait", "wait", "woken"}

\* with manager.cvar: (entry), and the re-acquisition when wait() is notified
MainCvAcquire ==
    /\ mpc \in {"cv_acquire", "woken"}
    /\ UNCHANGED <<filled, pureVars>>
    /\ UNCHANGED bpc
    /\ CanAcquire(mut2)
    /\ mut2' = Driver
    /\ mpc' = "cv_check"
    /\ UNCHANGED <<env, mgrVars, lockVars, ready, apiVars, callVars, sent,
                   lprice, result, nstart, nbailout, interrupts, replies, waited>>

MainCvCheckAnyWake ==
    /\ mpc = "cv_check"
    /\ UNCHANGED <<filled, pureVars>>
    /\ UNCHANGED bpc
    /\ IF ready \/ waited
       THEN mut2' = NoOne /\ mpc' = "start"
       ELSE mut2' = mut2 /\ mpc' = "cv_wait"
    /\ UNCHANGED <<env, mgrVars, lockVars, ready, apiVars, callVars, sent, replies,
                   lprice, result, nstart, nbailout, interrupts, waited>>

\* wait_for(lambda: manager.ready): the predicate is tested with mut2 held; a
\* true predicate ends the with block
MainCvCheck ==
    /\ mpc = "cv_check"
    /\ UNCHANGED <<filled, pureVars>>
    /\ UNCHANGED bpc
    /\ IF ready
       THEN mut2' = NoOne /\ mpc' = "start"
       ELSE mut2' = mut2 /\ mpc' = "cv_wait"
    /\ UNCHANGED <<env, mgrVars, lockVars, ready, apiVars, callVars, sent, replies,
                   lprice, result, nstart, nbailout, interrupts, waited>>

\* cvar.wait(): mut2 is released and the thread blocks until it is notified
MainWait ==
    /\ mpc = "cv_wait"
    /\ UNCHANGED <<filled, pureVars>>
    /\ UNCHANGED bpc
    /\ mut2' = NoOne
    /\ mpc' = "wait"
    /\ waited' = TRUE
    /\ UNCHANGED <<env, mgrVars, lockVars, ready, apiVars, callVars, sent, replies,
                   lprice, result, nstart, nbailout, interrupts>>

\* KeyboardInterrupt while waiting for the coin lock: main returns
InterruptWait ==
    /\ mpc \in WaitPcs
    /\ UNCHANGED <<filled, pureVars>>
    /\ UNCHANGED bpc
    /\ interrupts' = Append(interrupts, mpc)
    /\ mut2' = IF mut2 = Driver THEN NoOne ELSE mut2
    /\ mpc' = "exit"
    /\ result' = "wait_interrupted"
    /\ UNCHANGED <<env, mgrVars, lockVars, ready, apiVars, callVars, sent, replies,
                   lprice, nstart, nbailout, waited>>

(***************************************************************************)
(* Requests to the exchange.  A request is on the record from the moment   *)
(* it is sent; the main thread then waits for the response.                *)
(***************************************************************************)
bfmt(val)     == ffmt(val, ticks.lot)
bfmt_mkt(val) == ffmt(val, ticks.mkt_lot)
qfmt(val)     == ffmt(val, ticks.price)

\* <qty>: the amount passed by the caller; the other fields: the request
\* parameters as formatted
Request(kind, qty, quantity, price, stopPrice, stopLimitPrice, id) ==
    [kind |-> kind, qty |-> qty, quantity |-> quantity, price |-> price,
     stopPrice |-> stopPrice, stopLimitPrice |-> stopLimitPrice, id |-> id]

\* params of buy_coin_market
BuyRequest(q) == Request("BUY", q, qfmt(q), 0, 0, 0, 0)
\* params of sell_coin_market
MarketSellRequest(q) == Request("MARKET_SELL", q, bfmt_mkt(q), 0, 0, 0, 0)
\* params of sell_coin_limit
LimitRequest(q, price) == Request("LIMIT", q, bfmt(q), qfmt(price), 0, 0, 0)
\* params of sell_coin_oco
OcoRequestNoCushion(q, price, stop) ==
    Request("OCO", q, bfmt(q), qfmt(price), qfmt(stop), qfmt(stop), 0)
OcoRequest(q, price, stop) ==
    Request("OCO", q, bfmt(q), qfmt(price), qfmt(stop), qfmt(FMul(stop, 95)), 0)
\* params of cancel_order / cancel_oco_order
CancelRequest(oco, id) ==
    Request(IF oco THEN "CANCEL_OCO" ELSE "CANCEL", 0, 0, 0, 0, 0, id)

RECURSIVE SumSeq(_)
SumSeq(q) == IF q = <<>> THEN 0 ELSE Head(q) + SumSeq(Tail(q))

\* a response of the exchange, with the numbers it carries
Reply(kind, values) == [kind |-> kind, values |-> values]

\* main returns or raises: the process ends
Exit(res) == mpc' = "exit" /\ result' = res

\* start() returns or raises.  The event loop runs start() as a task; while
\* main runs the loop for bailout() the task is still in the loop, and its end
\* goes unnoticed: the process lives on until bailout() has ended
TaskEnds(res) ==
    IF bpc = "none"
    THEN Exit(res)
    ELSE mpc' = "ended" /\ result' = result

(***************************************************************************)
(* MarketManager.start (main.py:70-83) with check_sell_eligibility and     *)
(* sell_coins.                                                             *)
(***************************************************************************)
\* loop.run_until_complete(manager.start()): buy_coin_market sends the order
StartBuy ==
    /\ mpc = "start"
    /\ UNCHANGED <<filled, pureVars>>
    /\ UNCHANGED bpc
    /\ UNCHANGED replies
    /\ nstart' = nstart + 1
    /\ sent' = Append(sent, BuyRequest(QuoteQty))
    /\ mpc' = "buy_wait"
    /\ UNCHANGED <<env, mgrVars, lockVars, cvVars, apiVars, callVars,
                   lprice, result, nbailout, interrupts, waited>>

\* tprice, sprice of start()
TargetPrice(bp) == FMul(100 + FDiv(env.profit * 100, 10000), bp)
StopPrice(bp)   == FMul(100 + FDiv(env.stop * 100, 10000), bp)

\* the order response arrives: market_order_status, then the target prices and
\* the avgPrice request of check_sell_eligibility
BuyFilled(resp) ==
    /\ mpc = "buy_wait"
    /\ UNCHANGED <<filled, pureVars>>
    /\ UNCHANGED bpc
    /\ replies' = Append(replies, Reply("buy_filled", <<resp.executedQty>>))
    /\ LET st == market_order_status(resp) IN
         IF st.kind = "ok"
         THEN /\ bqty' = st.qty /\ bprice' = st.price
              /\ tprice' = TargetPrice(st.price)
              /\ sprice' = StopPrice(st.price)
              /\ mpc' = "avg_wait"
              /\ UNCHANGED result
         ELSE \* CException / ZeroDivisionError leaves start() and main
              /\ TaskEnds("buy_integrity_error")
              /\ UNCHANGED <<bqty, bprice, tprice, sprice>>
    /\ UNCHANGED <<env, allow_bailout, use_oco, oid, lockVars, cvVars, apiVars,
                   callVars, sent, lprice, nstart, nbailout, interrupts, waited>>

\* the exchange rejects the buy (ApiError): buy_coin_market returns
\* (False, 0, 0); start() is about to return
BuyRejectedRetries ==
    /\ mpc = "buy_wait"
    /\ UNCHANGED <<filled, pureVars>>
    /\ replies' = Append(replies, Reply("buy_rejected", <<>>))
    /\ bqty' = 0 /\ bprice' = 0
    /\ sent' = Append(sent, BuyRequest(QuoteQty))
    /\ UNCHANGED <<env, allow_bailout, use_oco, tprice, sprice, oid, lockVars, cvVars,
                   apiVars, callVars, mainVars>>

BuyRejected ==
    /\ mpc = "buy_wait"
    /\ UNCHANGED <<filled, pureVars>>
    /\ UNCHANGED bpc
    /\ replies' = Append(replies, Reply("buy_rejected", <<>>))
    /\ bqty' = 0 /\ bprice' = 0
    /\ mpc' = "buy_failed"
    /\ UNCHANGED <<env, allow_bailout, use_oco, tprice, sprice, oid, lockVars, cvVars,
                   apiVars, callVars, sent, lprice, result, nstart, nbailout,
                   interrupts, waited>>

\* `if not succ: return`: start() and main return
StartReturns ==
    /\ mpc = "buy_failed"
    /\ UNCHANGED <<filled, pureVars>>
    /\ UNCHANGED bpc
    /\ TaskEnds("buy_rejected")
    /\ UNCHANGED <<env, mgrVars, lockVars, cvVars, apiVars, callVars, sent, replies,
                   lprice, nstart, nbailout, interrupts, waited>>

\* the requests of the start() task that await a response
RequestPcs == {"buy_wait", "avg_wait", "limit_wait", "sell_wait"}

FatalErrorRetried ==
    /\ mpc \in RequestPcs \cup {"stream"}
    /\ UNCHANGED <<filled, pureVars>>
    /\ replies' = Append(replies, Reply(IF mpc = "stream" THEN "stream_error" ELSE "error",
                                        <<>>))
    /\ sent' = Append(sent, sent[Len(sent)])
    /\ UNCHANGED <<env, mgrVars, lockVars, cvVars, apiVars, callVars, mainVars>>

\* HTTP 418 / 429 in answer to a request (CException from req; a failed price
\* query likewise), or a failure of the trade stream: the exception leaves
\* start() and main
FatalError ==
    /\ mpc \in RequestPcs \cup {"stream"}
    /\ UNCHANGED <<filled, pureVars>>
    /\ UNCHANGED bpc
    /\ replies' = Append(replies, Reply(IF mpc = "stream" THEN "stream_error" ELSE "error",
                                        <<>>))
    /\ TaskEnds("error")
    /\ UNCHANGED <<env, mgrVars, lockVars, cvVars, apiVars, callVars, sent,
                   lprice, nstart, nbailout, interrupts, waited>>

\* check_sell_eligibility after the avgPrice response: the adjusted target and
\* stop and the quantity band
EligibilityAnyQty(avg) ==
    [tprice |-> tprice, sprice |-> sprice, low |-> 0, high |-> Inf, zerodiv |-> FALSE]

Eligibility(avg) ==
    IF env.sell_type = "MARKET"
    THEN LET q == qty_bound(pfilt, avg, TRUE)
         IN  [tprice |-> tprice, sprice |-> sprice, low |-> q.low, high |-> q.high,
              zerodiv |-> QtyBoundDividesByZero(pfilt, avg, TRUE)]
    ELSE LET pb == price_bound(pfilt, avg)
             tp == Min(tprice, pb.high)
             sp == IF use_oco THEN Max(sprice, pb.low) ELSE sprice
             zd == \/ QtyBoundDividesByZero(pfilt, tp, FALSE)
                   \/ use_oco /\ QtyBoundDividesByZero(pfilt, sp, FALSE)
         IN  [tprice |-> tp, sprice |-> sp,
              low  |-> IF zd THEN 0
                       ELSE IF use_oco THEN qty_bound(pfilt, sp, FALSE).low
                       ELSE qty_bound(pfilt, tp, FALSE).low,
              high |-> IF zd THEN 0 ELSE qty_bound(pfilt, tp, FALSE).high,
              zerodiv |-> zd]

\* the avgPrice response arrives: the rest of check_sell_eligibility, then
\* sell_coins up to its first request or to the trade stream
AvgPrice(avg) ==
    /\ mpc = "avg_wait"
    /\ UNCHANGED <<filled, pureVars>>
    /\ UNCHANGED bpc
    /\ replies' = Append(replies, Reply("avg_price", <<avg>>))
    /\ LET e == Eligibility(avg) IN
        /\ tprice' = e.tprice
        /\ sprice' = e.sprice
        /\ IF e.zerodiv \/ ~(e.low <= bqty /\ bqty <= e.high)
           THEN /\ TaskEnds("not_eligible")
                /\ UNCHANGED <<allow_bailout, sent>>
           ELSE IF env.sell_type = "LIMIT"
           THEN /\ sent' = Append(sent,
                      IF use_oco THEN OcoRequest(bqty, e.tprice, e.sprice)
                      ELSE LimitRequest(bqty, e.tprice))
                /\ mpc' = "limit_wait"
                /\ UNCHANGED <<allow_bailout, result>>
           ELSE /\ allow_bailout' = env.bailout
                /\ mpc' = "stream"
                /\ UNCHANGED <<sent, result>>
    /\ UNCHANGED <<env, use_oco, bqty, bprice, oid, lockVars, cvVars, apiVars,
                   callVars, lprice, nstart, nbailout, interrupts, waited>>

\* the limit / OCO order is accepted: sell_coins_limit returns its id
LimitPlaced(id) ==
    /\ mpc = "limit_wait"
    /\ UNCHANGED <<filled, pureVars>>
    /\ UNCHANGED bpc
    /\ replies' = Append(replies, Reply("order_placed", <<id>>))
    /\ oid' = id
    /\ IF ~env.bailout
       THEN TaskEnds("done") /\ UNCHANGED allow_bailout
       ELSE allow_bailout' = env.bailout /\ mpc' = "stream" /\ UNCHANGED result
    /\ UNCHANGED <<env, use_oco, bqty, bprice, tprice, sprice, lockVars, cvVars,
                   apiVars, callVars, sent, lprice, nstart, nbailout, interrupts, waited>>

\* the limit / OCO order is rejected (ApiError): id 0, CException
LimitRejected ==
    /\ mpc = "limit_wait"
    /\ UNCHANGED <<filled, pureVars>>
    /\ UNCHANGED bpc
    /\ replies' = Append(replies, Reply("order_rejected", <<>>))
    /\ TaskEnds("limit_failed")
    /\ UNCHANGED <<env, mgrVars, lockVars, cvVars, apiVars, callVars, sent,
                   lprice, nstart, nbailout, interrupts, waited>>

\* the trigger of the sell loop
TriggeredInclusive(p) == p >= tprice \/ p <= sprice
Triggered(p) == p > tprice \/ p < sprice

\* one aggregated trade of the stream
TradeAnyStrategy(p) ==
    /\ mpc = "stream"
    /\ UNCHANGED <<filled, pureVars>>
    /\ UNCHANGED bpc
    /\ UNCHANGED replies
    /\ IF p = lprice
       THEN UNCHANGED <<lprice, allow_bailout, sent, mpc>>
       ELSE /\ lprice' = p
            /\ IF Triggered(p)
               THEN /\ allow_bailout' = FALSE
                    /\ sent' = Append(sent, MarketSellRequest(bqty))
                    /\ mpc' = "sell_wait"
               ELSE UNCHANGED <<allow_bailout, sent, mpc>>
    /\ UNCHANGED <<env, use_oco, bqty, bprice, tprice, sprice, oid, lockVars, cvVars,
                   apiVars, callVars, result, nstart, nbailout, interrupts, waited>>

Trade(p) ==
    /\ mpc = "stream"
    /\ UNCHANGED <<filled, pureVars>>
    /\ UNCHANGED bpc
    /\ UNCHANGED replies
    /\ IF p = lprice
       THEN UNCHANGED <<lprice, allow_bailout, sent, mpc>>
       ELSE /\ lprice' = p
            /\ IF env.sell_type # "LIMIT" /\ Triggered(p)
               THEN /\ allow_bailout' = FALSE
                    /\ sent' = Append(sent, MarketSellRequest(bqty))
                    /\ mpc' = "sell_wait"
               ELSE UNCHANGED <<allow_bailout, sent, mpc>>
    /\ UNCHANGED <<env, use_oco, bqty, bprice, tprice, sprice, oid, lockVars, cvVars,
                   apiVars, callVars, result, nstart, nbailout, interrupts, waited>>

\* the market sell of the loop is filled: report, sell_coins and start return
SellFilled ==
    /\ mpc = "sell_wait"
    /\ UNCHANGED <<filled, pureVars>>
    /\ UNCHANGED bpc
    /\ replies' = Append(replies, Reply("sell_filled", <<>>))
    /\ TaskEnds("done")
    /\ UNCHANGED <<env, mgrVars, lockVars, cvVars, apiVars, callVars, sent,
                   lprice, nstart, nbailout, interrupts, waited>>

\* the market sell of the loop is rejected: CException('Market sell failed')
SellRejected ==
    /\ mpc = "sell_wait"
    /\ UNCHANGED <<filled, pureVars>>
    /\ UNCHANGED bpc
    /\ replies' = Append(replies, Reply("sell_rejected", <<>>))
    /\ TaskEnds("sell_failed")
    /\ UNCHANGED <<env, mgrVars, lockVars, cvVars, apiVars, callVars, sent,
                   lprice, nstart, nbailout, interrupts, waited>>

(***************************************************************************)
(* KeyboardInterrupt during run_until_complete(manager.start()) and        *)
(* MarketManager.bailout (main.py:186-198, 363-369).  run_until_complete   *)
(* lets the KeyboardInterrupt through without cancelling the start() task: *)
(* when main runs the loop again for bailout(), the task goes on in it,    *)
(* unless the interrupt was raised inside one of its own steps.            *)
(***************************************************************************)
TradePcs   == {"start", "buy_wait", "buy_failed", "avg_wait", "limit_wait",
               "stream", "sell_wait"}
BailoutPcs == {"cancel_wait", "bailout_sell_wait"}

\* the guard of bailout()
BailoutAllowedAlways == TRUE
BailoutAllowed == allow_bailout

\* KeyboardInterrupt while start() runs: bailout() up to its first request.
\* <killed>: the interrupt was raised inside a step of the start() task, which
\* ends with it; otherwise the task stays in the loop
Interrupt(killed) ==
    /\ mpc \in TradePcs /\ bpc = "none"
    /\ UNCHANGED <<filled, pureVars>>
    /\ UNCHANGED replies
    /\ interrupts' = Append(interrupts, mpc)
    /\ nbailout' = nbailout + 1
    /\ IF ~BailoutAllowed
       THEN Exit("bailout_refused") /\ UNCHANGED <<sent, bpc>>
       ELSE /\ mpc' = IF killed THEN "ended" ELSE mpc
            /\ UNCHANGED result
            /\ IF oid # 0
               THEN /\ sent' = Append(sent, CancelRequest(use_oco, oid))
                    /\ bpc' = "cancel_wait"
               ELSE /\ sent' = Append(sent, MarketSellRequest(bqty))
                    /\ bpc' = "bailout_sell_wait"
    /\ UNCHANGED <<env, mgrVars, lockVars, cvVars, apiVars, callVars, lprice, nstart,
                   waited>>

\* the exchange fills the resting limit / OCO order ('it is probably executed
\* already!'): no response tells the program
OrderFills ==
    /\ Alive /\ oid # 0 /\ ~filled
    /\ bpc \in {"none", "cancel_wait"}
    /\ filled' = TRUE
    /\ UNCHANGED <<env, mgrVars, lockVars, cvVars, apiVars, callVars, mainVars, sent,
                   replies, pureVars>>

\* the order reports of a successful cancellation: one for a limit order, one
\* per leg for an OCO order; an order that is filled cannot be cancelled
CancelReports ==
    IF use_oco
    THEN {<<a, b>> : a \in ExecutedQtys, b \in ExecutedQtys}
    ELSE {<<a>> : a \in ExecutedQtys}

\* the quantity cancel_limit subtracts
CancelledQtyNone(reports) == 0
CancelledQtyNegated(reports) == 0 - SumSeq(reports)
CancelledQty(reports) == SumSeq(reports)

\* cancel_limit after a successful cancellation, then the market sell of bailout
CancelDone(reports) ==
    /\ bpc = "cancel_wait" /\ Alive
    /\ ~filled /\ UNCHANGED <<filled, pureVars>>
    /\ replies' = Append(replies, Reply("cancelled", reports))
    /\ SumSeq(reports) < bqty
    /\ bqty' = bqty - CancelledQty(reports)
    /\ sent' = Append(sent, MarketSellRequest(bqty'))
    /\ bpc' = "bailout_sell_wait"
    /\ UNCHANGED <<env, allow_bailout, use_oco, bprice, tprice, sprice, oid, lockVars,
                   cvVars, apiVars, callVars, mpc, lprice, result, nstart, nbailout,
                   interrupts, waited>>

\* the cancellation fails (ApiError -> CException from cancel_limit, or HTTP
\* 418 / 429): main prints the exception
CancelFailedIgnored ==
    /\ bpc = "cancel_wait" /\ Alive
    /\ UNCHANGED <<filled, pureVars>>
    /\ replies' = Append(replies, Reply("cancel_failed", <<>>))
    /\ sent' = Append(sent, MarketSellRequest(bqty))
    /\ bpc' = "bailout_sell_wait"
    /\ UNCHANGED <<env, mgrVars, lockVars, cvVars, apiVars, callVars, mpc,
                   lprice, result, nstart, nbailout, interrupts, waited>>

CancelFailed ==
    /\ bpc = "cancel_wait" /\ Alive
    /\ UNCHANGED <<filled, pureVars>>
    /\ replies' = Append(replies, Reply("cancel_failed", <<>>))
    /\ Exit("bailout_error")
    /\ UNCHANGED <<env, mgrVars, lockVars, cvVars, apiVars, callVars, sent, bpc,
                   lprice, nstart, nbailout, interrupts, waited>>

\* the market sell of bailout is filled (report), rejected (nothing more is
\* done) or fails with HTTP 418 / 429 (main prints the exception)
BailoutSellEnd(res) ==
    /\ bpc = "bailout_sell_wait" /\ Alive
    /\ UNCHANGED <<filled, pureVars>>
    /\ replies' = Append(replies, Reply(res, <<>>))
    /\ Exit(res)
    /\ UNCHANGED <<env, mgrVars, lockVars, cvVars, apiVars, callVars, sent, bpc,
                   lprice, nstart, nbailout, interrupts, waited>>

\* a second KeyboardInterrupt, while bailout() runs: nothing catches it
InterruptBailout ==
    /\ bpc \in BailoutPcs /\ Alive
    /\ UNCHANGED <<filled, pureVars>>
    /\ UNCHANGED replies
    /\ interrupts' = Append(interrupts, bpc)
    /\ Exit("bailout_interrupted")
    /\ UNCHANGED <<env, mgrVars, lockVars, cvVars, apiVars, callVars, sent, bpc,
                   lprice, nstart, nbailout, waited>>

(***************************************************************************)
(* Specification.                                                          *)
(***************************************************************************)
CallerStep(C) ==
    \E c \in C :
        \/ \E b \in CoinNames : CallBegin(c, b)
        \/ LockAcquire(c)
        \/ LockChecks(c)
        \/ LockTake(c)
        \/ LockSetPair(c)
        \/ LockUseOco(c)
        \/ LockCvarAcquire(c)
        \/ LockNotify(c)
        \/ StdinEnd(c)
        \/ StdinExitAcquire(c)
        \/ StdinExitNotify(c)

WaitStep ==
    \/ MainCvAcquire
    \/ MainCvCheck
    \/ MainWait
    \/ InterruptWait

TradeStep ==
    \/ StartBuy
    \/ \E r \in BuyResponses : BuyFilled(r)
    \/ BuyRejected
    \/ StartReturns
    \/ FatalError
    \/ \E a \in AvgPrices : AvgPrice(a)
    \/ \E id \in OrderIds : LimitPlaced(id)
    \/ LimitRejected
    \/ \E p \in TradePrices : Trade(p)
    \/ SellFilled
    \/ SellRejected
    \/ \E k \in BOOLEAN : Interrupt(k)
    \/ \E q \in CancelReports : CancelDone(q)
    \/ CancelFailed
    \/ OrderFills
    \/ \E r \in {"bailout_done", "bailout_sell_rejected", "bailout_error"} :
          BailoutSellEnd(r)
    \/ InterruptBailout

\* The whole program: every input thread, the main thread, the exchange.
FullNext == CallerStep(Callers) \/ WaitStep \/ TradeStep
FullSpec == Init /\ [][FullNext]_vars

\* The trade cycle: the program with the coin turned in on stdin only (no HTTP
\* request arrives).
Next == CallerStep({StdinCaller}) \/ WaitStep \/ TradeStep
Spec == Init /\ [][Next]_vars

\* The trade cycle with the scheduling it gets: the event loop runs a step
\* that is ready, the exchange answers a request that was sent and the stream
\* goes on delivering trades.  Nothing obliges the operator to interrupt, a
\* request to fail or the resting order to be filled.
TradeFairness ==
    /\ WF_vars(MainCvAcquire) /\ WF_vars(MainCvCheck) /\ WF_vars(MainWait)
    /\ WF_vars(StartBuy) /\ WF_vars(StartReturns)
    /\ WF_vars(BuyRejected \/ \E r \in BuyResponses : BuyFilled(r))
    /\ WF_vars(\E a \in AvgPrices : AvgPrice(a))
    /\ WF_vars(LimitRejected \/ \E id \in OrderIds : LimitPlaced(id))
    /\ WF_vars(\E p \in TradePrices : Trade(p))
    /\ WF_vars(SellFilled \/ SellRejected)
    /\ WF_vars(CancelFailed \/ \E q \in CancelReports : CancelDone(q))
    /\ WF_vars(\E r \in {"bailout_done", "bailout_sell_rejected"} : BailoutSellEnd(r))
FairSpec == Spec /\ TradeFairness

\* The coin lock: every input thread races for the lock; of the trade cycle
\* only its start and an immediately failing buy are followed, and the
\* settings the lock does not read are fixed.
LockInit == Init /\ env.sell_type = "LIMIT" /\ env.bailout
LockNext ==
    \/ CallerStep(Callers)
    \/ WaitStep
    \/ StartBuy
    \/ BuyRejected
    \/ StartReturns
    \/ FatalError
LockSpec == LockInit /\ [][LockNext]_vars


\* The coin lock with the scheduling the threads get: a thread that can take a
\* step is not delayed for ever.  Nothing obliges input to arrive, stdin to
\* end, the operator to interrupt or the exchange to answer.
LockFairness ==
    /\ WF_vars(MainCvAcquire) /\ WF_vars(MainCvCheck) /\ WF_vars(MainWait)
    /\ WF_vars(StartBuy)
    /\ \A c \in Callers :
         /\ WF_vars(LockAcquire(c)) /\ WF_vars(LockChecks(c)) /\ WF_vars(LockTake(c))
         /\ WF_vars(LockSetPair(c)) /\ WF_vars(LockUseOco(c))
         /\ WF_vars(LockCvarAcquire(c)) /\ WF_vars(LockNotify(c))
         /\ WF_vars(StdinExitAcquire(c)) /\ WF_vars(StdinExitNotify(c))
\* The wake-up does not depend on the stop level or on the pair bound during
\* setup: the fair runs start without a converted quote quantity.
FairLockInit == LockInit /\ env.stop = -5 /\ pair = "none"
FairLockSpec == FairLockInit /\ [][LockNext]_vars /\ LockFairness

(***************************************************************************)
(* Properties of the coin lock.                                            *)
(***************************************************************************)
\* a lock call of thread c is in progress
InCall(c) == cpc[c] \in {"acquire", "checks", "take", "set_pair", "use_oco",
                         "cvar_acquire", "notify"}
NoCallInProgress == \A c \in Callers : ~InCall(c)

\* C1: of N >= 1 concurrent lock calls, all with tradable coins, exactly one
\* returns successfully and every other one raises, in every interleaving;
\* locked is set to true exactly once and is never reset.
C1_ExactlyOneLockSucceeds ==
    /\ [](/\ returns.ok <= 1
          /\ locksets <= 1
          /\ locked <=> (locksets = 1)
          /\ (NoCallInProgress /\ ncalls >= 1 /\ badcalls = 0)
                => /\ returns.ok = 1
                   /\ returns.already = ncalls - 1
                   /\ returns.invalid = 0
                   /\ locksets = 1)
    /\ [][locked => locked']_vars

\* C1 witness: three calls with tradable coins have all ended, one succeeded
\* and the other two were refused.
C1_Witness ==
    /\ NoCallInProgress /\ badcalls = 0 /\ ncalls >= 3
    /\ returns.ok = 1 /\ returns.already >= 2 /\ locked

\* C2: once a lock call has succeeded, every lock call that ends later ends
\* with the already-locked error, never with success and never with
\* InvalidPair, whatever its coin.
C2_LaterCallsAlreadyLocked ==
    [][returns.ok >= 1 =>
          /\ returns'.ok = returns.ok
          /\ returns'.invalid = returns.invalid
          /\ \A c \in Callers :
                (InCall(c) /\ ~InCall(c)') => returns'.already = returns.already + 1]_vars

\* C2 witness: after the successful call, a call with a coin that is no
\* tradable pair has ended, and it was not answered InvalidPair.
C2_Witness ==
    /\ returns.ok = 1 /\ badcalls >= 1 /\ returns.invalid = 0
    /\ returns.already >= 1 /\ NoCallInProgress

\* C3: a lock call with a coin that is no tradable pair, made while nothing is
\* locked, raises InvalidPair, leaves locked, ready, the bound pair and use_oco
\* as they were and releases the mutex (mut1 is held only inside the critical
\* section), so that a later call with a tradable coin still takes the lock.
C3_InvalidPairLeavesLockFree ==
    /\ [](\A c \in Callers :
            /\ (mut1 = c) => cpc[c] \in {"checks", "take"}
            /\ (cpc[c] \in {"checks", "take"}) => mut1 # NoOne)
    /\ [][\A c \in Callers :
            (cpc[c] = "checks" /\ cpc'[c] # "checks" /\ ~locked) =>
               IF csym[c] \notin DOMAIN pairs
               THEN /\ returns' = [returns EXCEPT !.invalid = @ + 1]
                    /\ mut1' = NoOne
                    /\ UNCHANGED <<locked, ready, pair, pfilt, ticks, use_oco>>
               ELSE cpc'[c] = "take" /\ returns' = returns]_vars

\* C3 witness: a call was answered InvalidPair and a call made afterwards took
\* the lock and returned.
C3_Witness == returns.invalid >= 1 /\ returns.ok = 1 /\ locked /\ ready

\* C4 as stated: every successful lock call is eventually followed by start(),
\* and start() is invoked at most once.
C4_StartAlwaysFollows ==
    /\ (returns.ok >= 1) ~> (nstart >= 1)
    /\ [](nstart <= 1)

\* C4 amended: every successful lock call is eventually followed by start()
\* unless a KeyboardInterrupt reaches the main thread while it is still
\* waiting for the lock (main then returns without trading); start() is
\* invoked at most once, and never without a successful lock.
C4_StartFollowsUnlessInterrupted ==
    /\ (returns.ok >= 1) ~> (nstart >= 1 \/ result = "wait_interrupted")
    /\ [](nstart <= 1)
    /\ [](nstart >= 1 => locked /\ ready)

\* C4 witness: the main thread was already blocked in wait() when the lock
\* call completed, and start() has been invoked.
C4_Witness == waited /\ returns.ok = 1 /\ nstart = 1


\* the kinds of the responses received / of the requests sent so far
Replied(kind) == \E i \in 1..Len(replies) : replies[i].kind = kind
SentKinds == {sent[i].kind : i \in 1..Len(sent)}

\* C5: once the exchange has rejected the market buy, the one buy request is
\* all the program ever sends: no second buy, no limit or OCO order, no market
\* sell and no cancellation, also when an interrupt runs bailout() afterwards;
\* the cycle is over (start() returns, bailout stays disallowed).
C5_FailedBuyStopsCycle ==
    Replied("buy_rejected") =>
        /\ Len(sent) = 1 /\ sent[1].kind = "BUY"
        /\ bqty = 0 /\ bprice = 0 /\ ~allow_bailout
        /\ mpc \in {"buy_failed", "exit"}

\* a rejected buy, then an interrupt with bailout enabled in the environment
C5_Witness ==
    /\ Replied("buy_rejected") /\ env.bailout
    /\ interrupts = <<"buy_failed">> /\ nbailout = 1
    /\ mpc = "exit" /\ Len(sent) = 1

\* C6 (as stated): under strategy MARKET or HYBRID every distinct trade price
\* of the sell loop that is strictly above meanBuyPrice*(1+profit/100) or
\* strictly below meanBuyPrice*(1+stop/100) makes the loop submit a market
\* sell for the whole remaining quantity, and a price between the two
\* (inclusive) makes it submit nothing.
C6_SellsOutsideTargetAndStop ==
    [][(mpc = "stream" /\ env.sell_type \in {"MARKET", "HYBRID"} /\ lprice' # lprice) =>
         IF lprice' > TargetPrice(bprice) \/ lprice' < StopPrice(bprice)
         THEN /\ sent' = Append(sent, MarketSellRequest(bqty))
              /\ mpc' = "sell_wait"
         ELSE /\ sent' = sent
              /\ mpc' = "stream"]_vars

\* the average price check_sell_eligibility last received
LastAvgPrice == replies[Len(replies)].values[1]

\* C6 (amended): the sell loop compares with the manager's target and stop.
\* Under MARKET these are meanBuyPrice*(1+profit/100) and
\* meanBuyPrice*(1+stop/100); under HYBRID check_sell_eligibility has lowered
\* the target to the high end of the price band of the average price and, when
\* an OCO order is possible, raised the stop to its low end.  Every distinct
\* trade price strictly above that target or strictly below that stop makes
\* the loop submit a market sell for the whole remaining quantity; a price
\* between them (inclusive) submits nothing.
C6_SellsOutsideAdjustedTargetAndStop ==
    /\ [](mpc = "stream" /\ env.sell_type = "MARKET" =>
            tprice = TargetPrice(bprice) /\ sprice = StopPrice(bprice))
    /\ [](mpc = "stream" /\ env.sell_type = "HYBRID" =>
            LET pb == price_bound(pfilt, LastAvgPrice) IN
              /\ tprice = Min(TargetPrice(bprice), pb.high)
              /\ sprice = IF use_oco THEN Max(StopPrice(bprice), pb.low)
                          ELSE StopPrice(bprice))
    /\ [][(mpc = "stream" /\ env.sell_type \in {"MARKET", "HYBRID"} /\ lprice' # lprice) =>
            IF lprice' > tprice \/ lprice' < sprice
            THEN /\ sent' = Append(sent, MarketSellRequest(bqty))
                 /\ mpc' = "sell_wait"
            ELSE /\ sent' = sent
                 /\ mpc' = "stream"]_vars

\* under HYBRID a market sell has been submitted at a trade price that is above
\* the lowered target and not above meanBuyPrice*(1+profit/100)
C6_Witness ==
    /\ mpc = "sell_wait" /\ env.sell_type = "HYBRID"
    /\ tprice < TargetPrice(bprice)
    /\ lprice > tprice /\ lprice <= TargetPrice(bprice)
    /\ sent[Len(sent)] = MarketSellRequest(bqty)

\* C7: with bailout enabled, an interrupt that arrives after the market buy
\* has completed and before the sell loop has submitted its own market sell
\* (also while the average price of the eligibility check or the placement of
\* the limit / OCO order is awaited) makes bailout() act: it submits the
\* cancellation of the outstanding order if there is one, else the market sell
\* of the whole remaining quantity.
C7_InterruptAfterBuyBailsOut ==
    [][(/\ env.bailout /\ bprice > 0
        /\ mpc \in {"avg_wait", "limit_wait", "stream"}
        /\ Len(interrupts') > Len(interrupts)) =>
          /\ result' # "bailout_refused"
          /\ sent' = Append(sent, IF oid # 0 THEN CancelRequest(use_oco, oid)
                                  ELSE MarketSellRequest(bqty))]_vars

\* C8: in bailout with an outstanding limit or OCO order the cancellation is
\* requested first; when it succeeds the remaining quantity goes down by
\* exactly the executed quantity the cancellation reports and the market sell
\* is submitted for exactly the reduced quantity.  A market sell that follows a
\* limit / OCO order is always directly preceded by the cancellation of that
\* order, and the cancellation has succeeded.
C8_BailoutCancelsThenSellsRest ==
    /\ [][(bpc = "cancel_wait" /\ bpc' = "bailout_sell_wait") =>
            LET rep  == replies'[Len(replies')]
                sell == sent'[Len(sent')]
            IN  /\ sent[Len(sent)] = CancelRequest(use_oco, oid)
                /\ rep.kind = "cancelled"
                /\ bqty' = bqty - SumSeq(rep.values)
                /\ Len(sent') = Len(sent) + 1
                /\ sell.kind = "MARKET_SELL" /\ sell.qty = bqty']_vars
    /\ [](\A i \in 1..Len(sent) :
            (/\ sent[i].kind = "MARKET_SELL"
             /\ \E j \in 1..(i - 1) : sent[j].kind \in {"LIMIT", "OCO"}) =>
                /\ sent[i - 1].kind \in {"CANCEL", "CANCEL_OCO"}
                /\ sent[i - 1].id = oid /\ oid # 0
                /\ sent[i - 2].kind \in {"LIMIT", "OCO"}
                /\ Replied("cancelled"))

\* a limit order of 5.00 with 2.00 executed is cancelled: 3.00 remain and are
\* sold on the market
C8_Witness ==
    /\ bpc = "bailout_sell_wait" /\ oid # 0
    /\ replies[Len(replies)] = Reply("cancelled", <<200>>)
    /\ sent[Len(sent) - 1].kind = "CANCEL"
    /\ sent[Len(sent) - 2].kind = "LIMIT" /\ sent[Len(sent) - 2].qty = 500
    /\ bqty = 300 /\ sent[Len(sent)].qty = 300

\* C9: when the cancellation of the outstanding limit / OCO order fails during
\* bailout, bailout() ends there with the exception main prints to the
\* operator: the remaining quantity keeps its value and no market sell is
\* submitted, then or later (the cancellation stays the last request sent).
C9_FailedCancelAbortsBailout ==
    /\ [][(bpc = "cancel_wait" /\ Len(replies') > Len(replies)
           /\ replies'[Len(replies')].kind = "cancel_failed") =>
            /\ mpc' = "exit" /\ result' = "bailout_error"
            /\ bqty' = bqty /\ sent' = sent]_vars
    /\ [](Replied("cancel_failed") =>
            /\ mpc = "exit" /\ result = "bailout_error"
            /\ sent[Len(sent)] = CancelRequest(use_oco, oid)
            /\ "MARKET_SELL" \notin SentKinds
            /\ bqty = sent[Len(sent) - 1].qty)

\* the cancellation of a placed limit / OCO order has failed in bailout
C9_Witness ==
    /\ Replied("cancel_failed") /\ nbailout = 1 /\ oid # 0
    /\ interrupts = <<"stream">> /\ bqty > 0
    /\ sent[Len(sent) - 1].kind \in {"LIMIT", "OCO"}

\* C10: while no buy has completed (the mean buy price is still 0: before or
\* during the buy, or after a rejected buy) an interrupt makes bailout() submit
\* nothing, so the buy is the only request ever sent; and bailout() runs at
\* most once per process, however many interrupts arrive.
C10_BailoutNoOpBeforeBuy ==
    /\ [][(bprice = 0 /\ Len(interrupts') > Len(interrupts)) =>
            sent' = sent /\ mpc' = "exit"]_vars
    /\ [](bprice = 0 => SentKinds \subseteq {"BUY"})
    /\ [](nbailout <= 1 /\ (Len(interrupts) > 1 => mpc = "exit"))

\* with bailout enabled in the environment an interrupt has arrived while the
\* buy order was awaited: bailout() ran once and nothing but the buy was sent
C10_Witness ==
    /\ env.bailout /\ interrupts = <<"buy_wait">> /\ nbailout = 1
    /\ bprice = 0 /\ result = "bailout_refused"
    /\ Len(sent) = 1 /\ sent[1].kind = "BUY"

\* the market sells submitted so far
MarketSells == {i \in 1..Len(sent) : sent[i].kind = "MARKET_SELL"}

\* C11: the sell loop and bailout() never both act on the position: once
\* bailout() has begun the sell loop submits no sell, and over a whole cycle at
\* most one market sell is submitted.
C11_LoopAndBailoutExclusive ==
    /\ [](Cardinality(MarketSells) <= 1)
    /\ [][(bpc # "none" /\ mpc = "stream") => mpc' \in {"stream", "ended", "exit"}]_vars

\* the step in which check_sell_eligibility receives the average price
ChecksEligibility ==
    /\ mpc = "avg_wait" /\ Len(replies') > Len(replies)
    /\ replies'[Len(replies')].kind = "avg_price"

\* the sell orders among the requests sent
SellKinds == {"LIMIT", "OCO", "MARKET_SELL"}

PassesEligibility == ChecksEligibility /\ mpc' \in {"limit_wait", "stream"}

\* a stop level is configured and the locked pair permits OCO orders
OcoPossible == env.stop > -100 /\ pair \in DOMAIN pairs /\ pairs[pair].ocoAllowed

\* the OCO orders among the requests sent
OcoOrders == {i \in 1..Len(sent) : sent[i].kind = "OCO"}

\* C13 (as stated): whenever a stop level is configured and the locked pair
\* permits OCO, the sell is placed as a single OCO order (limit leg at the
\* target, stop leg at the stop price, stop-limit price 0.95 x the stop price)
\* under every strategy; otherwise no OCO order is ever submitted.
C13_OcoUnderEveryStrategy ==
    /\ [][(PassesEligibility /\ OcoPossible) =>
            LET order == sent'[Len(sent')]
            IN  /\ Len(sent') = Len(sent) + 1
                /\ order.kind = "OCO" /\ order.qty = bqty
                /\ order.price = qfmt(tprice') /\ order.stopPrice = qfmt(sprice')
                /\ order.stopLimitPrice = qfmt(FMul(sprice', 95))]_vars
    /\ [](Cardinality(OcoOrders) <= 1)
    /\ [](~OcoPossible => OcoOrders = {})

\* C13 (amended): the OCO order is placed under strategy LIMIT only.  Under
\* LIMIT, when a stop level is configured and the locked pair permits OCO, the
\* sell is placed as a single OCO order (limit leg at the clipped target, stop
\* leg at the stop price, stop-limit price 0.95 x the stop price), and else as
\* a limit order; under MARKET and HYBRID, or with stop = -100%, or with a pair
\* that disallows OCO, no OCO order is ever submitted.
C13_OcoUnderLimitOnly ==
    /\ [][(PassesEligibility /\ env.sell_type = "LIMIT") =>
            LET order == sent'[Len(sent')]
            IN  /\ Len(sent') = Len(sent) + 1
                /\ order.qty = bqty /\ order.price = qfmt(tprice')
                /\ IF OcoPossible
                   THEN /\ order.kind = "OCO"
                        /\ order.stopPrice = qfmt(sprice')
                        /\ order.stopLimitPrice = qfmt(FMul(sprice', 95))
                   ELSE order.kind = "LIMIT"]_vars
    /\ [][(PassesEligibility /\ env.sell_type # "LIMIT") => sent' = sent]_vars
    /\ [](Cardinality(OcoOrders) <= 1)
    /\ [](~OcoPossible \/ env.sell_type # "LIMIT" => OcoOrders = {})
    /\ [](ready /\ Alive => use_oco = OcoPossible)

\* an OCO order is on record: stop -5%, target 55.00 and stop 47.50 for a buy
\* at 50.00, stop-limit price 45.12
C13_Witness ==
    /\ env.sell_type = "LIMIT" /\ OcoPossible /\ bprice = 5000
    /\ Cardinality(OcoOrders) = 1 /\ mpc = "limit_wait"
    /\ sent[Len(sent)].price = 5500 /\ sent[Len(sent)].stopPrice = 4750
    /\ sent[Len(sent)].stopLimitPrice = 4512

\* the resting sell orders among the requests sent
RestingOrders == {i \in 1..Len(sent) : sent[i].kind \in {"LIMIT", "OCO"}}

\* C14: under strategy LIMIT the flow that passes the eligibility check places
\* exactly one resting sell order (limit, or OCO when applicable) and never
\* another; no trade price of the stream, above the target or below the stop,
\* makes the sell loop submit anything; a market sell is submitted by bailout()
\* only.
C14_LimitLoopNeverSells ==
    /\ [][(PassesEligibility /\ env.sell_type = "LIMIT") =>
            /\ sent' = Append(sent, sent'[Len(sent')])
            /\ RestingOrders' = {Len(sent')}]_vars
    /\ [](Cardinality(RestingOrders) <= 1)
    /\ [][(env.sell_type = "LIMIT" /\ lprice' # lprice) =>
            sent' = sent /\ mpc' = "stream" /\ allow_bailout' = allow_bailout]_vars
    /\ [][(env.sell_type = "LIMIT" /\ MarketSells' # MarketSells) =>
            /\ nbailout = 1 /\ bpc \in BailoutPcs /\ bpc' = "bailout_sell_wait"
            /\ mpc' = mpc]_vars

\* under LIMIT trades above the target (56.00 > 55.00) and below the stop have
\* arrived and the resting order is still the last request sent
C14_Witness ==
    /\ env.sell_type = "LIMIT" /\ mpc = "stream" /\ bpc = "none"
    /\ tprice = 5500 /\ lprice = 5600
    /\ Len(sent) = 2 /\ RestingOrders = {2}

\* C15: after a sell has succeeded the engine eventually reaches its terminal
\* state: after the market sell of the loop has been filled, and also after
\* the exchange has filled the resting limit / OCO order while the engine
\* watches the trade stream.
C15_SoldEventuallyDone ==
    /\ Replied("sell_filled") ~> (mpc = "exit")
    /\ filled ~> (mpc = "exit")

\* C16: once the buy is filled (selling begins) the remaining quantity never
\* increases and never becomes negative; it changes only when a cancellation
\* succeeds, by the executed quantity the cancellation reports.
C16_RemainingQtyOnlyDecreases ==
    /\ [][bprice > 0 =>
            /\ bqty' <= bqty /\ bqty' >= 0 /\ bprice' = bprice
            /\ bqty' # bqty =>
                 /\ Len(replies') = Len(replies) + 1
                 /\ replies'[Len(replies')].kind = "cancelled"
                 /\ bqty' = bqty - SumSeq(replies'[Len(replies')].values)]_vars
    /\ [](bprice > 0 => bqty > 0)

\* 2.00 were bought and the cancellation of the OCO order reported 1.00
\* executed: 1.00 remains
C16_Witness ==
    /\ bprice = 5000 /\ bqty = 100 /\ use_oco
    /\ replies[1] = Reply("buy_filled", <<200>>)
    /\ replies[Len(replies)].kind = "cancelled"
    /\ SumSeq(replies[Len(replies)].values) = 100

\* the positions of start() from the eligibility check on
SellingPcs == {"avg_wait", "limit_wait", "stream", "sell_wait"}

\* C17: the engine is never in the selling phase (eligibility check, order
\* placement, trade stream, market sell) with a mean buy price of zero.  A
\* buy response either yields a positive mean buy price, with which selling
\* begins, or ends the cycle with the integrity error: it is neither taken
\* for a successful buy nor for a rejected one, and nothing more is sent.
C17_NoSellingAtZeroBuyPrice ==
    /\ [](mpc \in SellingPcs => bprice > 0)
    /\ [](SentKinds \cap SellKinds # {} => bprice > 0)
    /\ [][(mpc = "buy_wait" /\ Len(replies') > Len(replies)
           /\ replies'[Len(replies')].kind = "buy_filled") =>
            IF mpc' = "avg_wait"
            THEN bprice' > 0 /\ bqty' = replies'[Len(replies')].values[1]
            ELSE /\ mpc' = "exit" /\ result' = "buy_integrity_error"
                 /\ bprice' = 0 /\ bqty' = 0 /\ sent' = sent]_vars
    /\ [](result = "buy_integrity_error" => SentKinds = {"BUY"} /\ ~Replied("buy_rejected"))

\* the response to the buy had an average fill price of zero: the cycle has
\* ended with the integrity error
C17_Witness ==
    /\ result = "buy_integrity_error" /\ mpc = "exit"
    /\ replies = <<Reply("buy_filled", <<0>>)>>
    /\ bprice = 0 /\ Len(sent) = 1

(***************************************************************************)
(* The functions of BinanceAPI applied on their own, to inputs drawn from  *)
(* bounded sets.                                                           *)
(***************************************************************************)
MaxFills == 2

\* the fills of a market-order response
Fills == [price : {0, 1000, 2000, 5000}, qty : {100, 200}]
FillSeqs == UNION {[1..n -> Fills] : n \in 0..MaxFills}

\* market-order responses
OrderResponses == [executedQty : {0, 100, 200, 400}, fills : FillSeqs]


PureFrame ==
    UNCHANGED <<env, mgrVars, lockVars, cvVars, apiVars, callVars, mainVars, sent,
                replies, filled, fn>>

\* market_order_status(resp)
ApplyMarketOrderStatus ==
    /\ fn.name = "market_order_status" /\ out = NotApplied
    /\ out' = market_order_status(fn.resp)
    /\ PureFrame

\* a filter of type <t> drawn from <fs>, or no filter of that type
Optional(t, fs) == {[x \in {} |-> 0]} \cup {[x \in {t} |-> f] : f \in fs}

\* PERCENT_PRICE and PRICE_FILTER filters, multiplierDown <= multiplierUp and
\* minPrice <= maxPrice
PercentFilters ==
    { [multiplierUp |-> 500, multiplierDown |-> 20],
      [multiplierUp |-> 120, multiplierDown |-> 80],
      [multiplierUp |-> 100, multiplierDown |-> 100] }
PriceFilters ==
    { [minPrice |-> 1, maxPrice |-> 10000000],
      [minPrice |-> 1000, maxPrice |-> 10000],
      [minPrice |-> 5000, maxPrice |-> 5000] }
PriceFilterSets ==
    {a @@ b : a \in Optional("PERCENT_PRICE", PercentFilters),
              b \in Optional("PRICE_FILTER", PriceFilters)}

\* average trading prices, avg > 0
TradingPrices == {1, 100, 5000, 20000}

\* the lot and notional filters
LotFilters == {[minQty |-> 100, maxQty |-> 400], [minQty |-> 300, maxQty |-> 100000]}
MarketLotFilters == {[minQty |-> 100, maxQty |-> 100000], [minQty |-> 50, maxQty |-> 900]}
NotionalFilters ==
    { [minNotional |-> 1000, applyToMarket |-> TRUE],
      [minNotional |-> 1000, applyToMarket |-> FALSE],
      [minNotional |-> 100000, applyToMarket |-> TRUE] }
QtyFilterSets ==
    {(a @@ b) @@ c : a \in Optional("LOT_SIZE", LotFilters),
                     b \in Optional("MARKET_LOT_SIZE", MarketLotFilters),
                     c \in Optional("MIN_NOTIONAL", NotionalFilters)}

\* limit or average prices, price > 0
LimitPrices == {1, 500, 5000}

\* price_bound(avg) under the filters <pf>
ApplyPriceBound ==
    /\ fn.name = "price_bound" /\ out = NotApplied
    /\ out' = price_bound(fn.pf, fn.avg)
    /\ PureFrame

\* qty_bound(price, market) under the filters <pf>
ApplyQtyBound ==
    /\ fn.name = "qty_bound" /\ out = NotApplied
    /\ out' = qty_bound(fn.pf, fn.price, fn.market)
    /\ PureFrame

\* pairs of the exchange info: those of the trade cycle, one with steps of
\* 0.001 and one with asset precisions of 6
PairInfos ==
    {ExchangeSymbols[b] : b \in DOMAIN ExchangeSymbols} \cup
    { [symbol |-> "CCC", ocoAllowed |-> TRUE,
       baseAssetPrecision |-> 8, quoteAssetPrecision |-> 8,
       filters |->
         [PRICE_FILTER |-> [minPrice |-> 1, maxPrice |-> 10000000, tickSize |-> 100000],
          LOT_SIZE     |-> [minQty |-> 100, maxQty |-> 100000, stepSize |-> 100000]]],
      [symbol |-> "DDD", ocoAllowed |-> FALSE,
       baseAssetPrecision |-> 6, quoteAssetPrecision |-> 6,
       filters |->
         [PRICE_FILTER    |-> [minPrice |-> 1, maxPrice |-> 10000000, tickSize |-> 1],
          LOT_SIZE        |-> [minQty |-> 100, maxQty |-> 100000, stepSize |-> 100000],
          MARKET_LOT_SIZE |-> [minQty |-> 100, maxQty |-> 100000, stepSize |-> 1000000]]] }

\* a BinanceAPI object as constructed
FreshApi == [pfilt |-> NoFilters, ticks |-> TickSizes]

\* the API object before the call: fresh, or with one pair bound earlier
BoundApis == {FreshApi} \cup {set_pair(NoFilters, TickSizes, q) : q \in PairInfos}

\* set_pair(pair) on the API object <api>
ApplySetPair ==
    /\ fn.name = "set_pair" /\ out = NotApplied
    /\ out' = set_pair(fn.api.pfilt, fn.api.ticks, fn.pair)
    /\ PureFrame

\* the calls: a function and its arguments
PureCalls ==
    [name : {"market_order_status"}, resp : OrderResponses]
        \cup [name : {"set_pair"}, api : BoundApis, pair : PairInfos]
        \cup [name : {"price_bound"}, pf : PriceFilterSets, avg : TradingPrices]
        \cup [name : {"qty_bound"}, pf : QtyFilterSets, price : LimitPrices,
               market : BOOLEAN]

\* one program state and one call, not yet applied
PureInit ==
    /\ ProgramInit
    /\ env = [sell_type |-> "LIMIT", bailout |-> FALSE, profit |-> 10, stop |-> -100]
    /\ pair = "none"
    /\ fn \in PureCalls
    /\ out = NotApplied

PureNext ==
    \/ ApplyMarketOrderStatus
    \/ ApplyPriceBound
    \/ ApplyQtyBound
    \/ ApplySetPair
PureSpec == PureInit /\ [][PureNext]_vars

\* sum over the fills of price * qty
RECURSIVE QuoteSum(_)
QuoteSum(fills) ==
    IF fills = <<>> THEN 0
    ELSE FMul(Head(fills).price, Head(fills).qty) + QuoteSum(Tail(fills))

\* C18: for every market-order response on which market_order_status returns,
\* the average fill price returned is the sum over the fills of price * qty
\* divided by the executedQty of the response, and the executed quantity
\* returned is that executedQty (fills (10,1), (20,1) with executedQty 2 give
\* 15).
C18_AverageFillPrice ==
    (fn.name = "market_order_status" /\ out # NotApplied /\ out.kind = "ok") =>
        /\ out.price = FDiv(QuoteSum(fn.resp.fills), fn.resp.executedQty)
        /\ out.qty = fn.resp.executedQty

\* fills (10.00, 1.00), (20.00, 1.00) with executedQty 2.00 give (2.00, 15.00)
C18_Witness ==
    /\ fn.name = "market_order_status"
    /\ fn.resp = [executedQty |-> 200, fills |-> <<[price |-> 1000, qty |-> 100],
                                                   [price |-> 2000, qty |-> 100]>>]
    /\ out = [kind |-> "ok", qty |-> 200, price |-> 1500]

\* C19: for every avg > 0 and every combination of present or absent
\* PERCENT_PRICE and PRICE_FILTER filters (multiplierDown <= multiplierUp,
\* minPrice <= maxPrice), price_bound(avg) returns a band with low <= high, and
\* the band is (0, +infinity) when both filters are absent.
C19_PriceBandOrdered ==
    (fn.name = "price_bound" /\ out # NotApplied) =>
        /\ out.low <= out.high
        /\ (~Has(fn.pf, "PERCENT_PRICE") /\ ~Has(fn.pf, "PRICE_FILTER"))
               => out = [low |-> 0, high |-> Inf]

\* the second half of C19 on its own: without either filter the band is
\* (0, +infinity)
C19_NoFilterNoBand ==
    (fn.name = "price_bound" /\ out # NotApplied /\ fn.pf = [x \in {} |-> 0]) =>
        out = [low |-> 0, high |-> Inf]

\* the applicable lot filter of qty_bound: MARKET_LOT_SIZE for a market order
\* when present, otherwise LOT_SIZE when present
ApplicableLot(pf, market) ==
    IF market /\ Has(pf, "MARKET_LOT_SIZE") THEN "MARKET_LOT_SIZE"
    ELSE IF Has(pf, "LOT_SIZE") THEN "LOT_SIZE"
    ELSE "none"

\* C20: for every price > 0, order type and filter combination in which a lot
\* filter applies, the lower bound returned by qty_bound is at least the raw
\* minQty of that filter, and the upper bound is its maxQty.
C20_QtyBandWithinLot ==
    (fn.name = "qty_bound" /\ out # NotApplied
        /\ ApplicableLot(fn.pf, fn.market) # "none") =>
        LET filt == fn.pf[ApplicableLot(fn.pf, fn.market)]
        IN  /\ fn.price > 0
            /\ out.low >= filt.minQty
            /\ out.high = filt.maxQty

\* a market order under MARKET_LOT_SIZE whose notional floor raises the lower
\* bound above minQty
C20_Witness ==
    /\ fn.name = "qty_bound" /\ out # NotApplied
    /\ fn.market
    /\ ApplicableLot(fn.pf, fn.market) = "MARKET_LOT_SIZE"
    /\ Has(fn.pf, "LOT_SIZE")
    /\ out.low > fn.pf["MARKET_LOT_SIZE"].minQty
    /\ out.high = fn.pf["MARKET_LOT_SIZE"].maxQty
    /\ out.high # fn.pf["LOT_SIZE"].maxQty

\* the call binds a pair whose <filt> step (field <step>) is 0.00100000 under
\* an asset precision of 8
BindsStepOfThousandth(filt, step, prec) ==
    /\ fn.name = "set_pair" /\ out # NotApplied
    /\ Has(fn.pair.filters, filt)
    /\ fn.pair.filters[filt][step] = 100000
    /\ fn.pair[prec] = 8

\* C21 as stated: the tick precision derived for step size "0.00100000" with
\* asset precision 8 is 5.
C21_ThousandthStepGivesFive ==
    /\ BindsStepOfThousandth("LOT_SIZE", "stepSize", "baseAssetPrecision")
           => out.ticks.lot = 5
    /\ BindsStepOfThousandth("PRICE_FILTER", "tickSize", "quoteAssetPrecision")
           => out.ticks.price = 5

\* C21: the tick precision derived for step size "0.00100000" with asset
\* precision 8 is 3 (8 minus the 5 trailing zeros of tsize = 100000), whatever
\* was bound before.
C21_ThousandthStepGivesThree ==
    /\ BindsStepOfThousandth("LOT_SIZE", "stepSize", "baseAssetPrecision")
           => out.ticks.lot = 3
    /\ BindsStepOfThousandth("PRICE_FILTER", "tickSize", "quoteAssetPrecision")
           => out.ticks.price = 3

\* a pair with lot step 0.001 is bound on an object that had another pair bound
C21_Witness ==
    /\ BindsStepOfThousandth("LOT_SIZE", "stepSize", "baseAssetPrecision")
    /\ fn.api # FreshApi
    /\ fn.api.ticks.lot # 3
    /\ out.ticks.lot = 3

\* <q> lies in the market quantity band at price <p>
InMarketBand(q, p) ==
    LET band == qty_bound(pfilt, p, TRUE)
    IN  band.low <= q /\ q <= band.high

\* the sell loop takes a new trade price that triggers a sell
TriggerStep ==
    /\ mpc = "stream" /\ env.sell_type # "LIMIT"
    /\ lprice' # lprice /\ Triggered(lprice')

\* C22: under MARKET or HYBRID, when a trade price triggers a sell, the
\* remaining quantity is first checked against the market quantity band at
\* that price; outside the band no sell is submitted on that tick and the
\* engine keeps watching the stream.
C22_TriggerChecksMarketBand ==
    [][(TriggerStep /\ ~InMarketBand(bqty, lprice'))
           => (sent' = sent /\ mpc' = "stream")]_vars

\* the exchange rejects the market sell fired by the sell loop
LoopSellRejected ==
    /\ mpc = "sell_wait"
    /\ Len(replies') = Len(replies) + 1
    /\ replies'[Len(replies')].kind = "sell_rejected"

\* C23: a rejected sell order does not end the cycle: after the exchange
\* rejects a market sell fired by the sell loop the engine goes back to
\* watching the stream, from where a later trigger can sell.
C23_RejectedSellKeepsWatching ==
    [][LoopSellRejected => mpc' = "stream"]_vars

\* C24: every limit or OCO order is placed by the flow that passes the
\* eligibility check, and its limit price is min(meanBuyPrice*(1+profit/100),
\* high) as formatted for the request, where high is the upper price bound at
\* the average price of that check; for an OCO order the stop price sent is
\* max(meanBuyPrice*(1+stop/100), low).  A target above the bound is lowered
\* to the bound.
C24_LimitPriceClippedToBand ==
    /\ [][(PassesEligibility /\ env.sell_type = "LIMIT") =>
            LET avg   == replies'[Len(replies')].values[1]
                band  == price_bound(pfilt, avg)
                order == sent'[Len(sent')]
            IN  /\ Len(sent') = Len(sent) + 1
                /\ order.kind \in {"LIMIT", "OCO"}
                /\ order.price = qfmt(Min(TargetPrice(bprice), band.high))
                /\ order.kind = "OCO" =>
                       order.stopPrice = qfmt(Max(StopPrice(bprice), band.low))]_vars
    /\ [][RestingOrders' # RestingOrders =>
            (PassesEligibility /\ env.sell_type = "LIMIT")]_vars

\* buy at 50.00, profit 10%: the target 55.00 is above the bound 52.25 of the
\* average price 11.00, and the limit order goes out at 52.25
C24_Witness ==
    /\ env.sell_type = "LIMIT" /\ mpc = "limit_wait" /\ bprice = 5000
    /\ TargetPrice(bprice) = 5500
    /\ LastAvgPrice = 1100 /\ price_bound(pfilt, 1100).high = 5225
    /\ sent[Len(sent)].kind \in {"LIMIT", "OCO"}
    /\ sent[Len(sent)].price = 5225

\* a request of the normal flow is answered with HTTP 418 or 429
FatalResponse ==
    /\ mpc \in RequestPcs
    /\ Len(replies') = Len(replies) + 1
    /\ replies'[Len(replies')].kind = "error"

\* the exchange rejects an order of the normal flow (any other non-OK response)
Rejection(kind) ==
    /\ Len(replies') = Len(replies) + 1
    /\ replies'[Len(replies')].kind = kind

\* C25: an IP-ban (418) or rate-limit (429) response to a call of the normal
\* flow is raised: the start() task ends with the error, the call is not
\* turned into a per-call failure and is not sent again, and no request is
\* submitted afterwards.  Any other non-OK response to an order is a per-call
\* failure: a rejected buy lets start() return, a rejected limit / OCO order
\* or market sell is reported as order id 0 / False, and none of them ends
\* the cycle as a transport error.
C25_BanAndRateLimitAreFatal ==
    /\ [][FatalResponse =>
            (mpc' \in {"exit", "ended"} /\ sent' = sent
             /\ (mpc' = "exit" => result' = "error"))]_vars
    /\ [][Replied("error") => sent' = sent]_vars
    /\ [][Rejection("buy_rejected") => (mpc' = "buy_failed" /\ result' = result)]_vars
    /\ [][(Rejection("order_rejected") /\ mpc' = "exit") => result' = "limit_failed"]_vars
    /\ [][(Rejection("sell_rejected") /\ mpc' = "exit") => result' = "sell_failed"]_vars
    /\ [][Rejection("bailout_sell_rejected") => result' = "bailout_sell_rejected"]_vars
    /\ [](~Replied("error") \/ ~(Replied("buy_rejected") \/ Replied("order_rejected")
                                  \/ Replied("sell_rejected")))

\* the market sell of the loop was answered with 418 / 429: the process has
\* ended with the error, and the sell is the last request sent
C25_Witness ==
    /\ Replied("error") /\ mpc = "exit" /\ result = "error"
    /\ Len(sent) = 2 /\ sent[2].kind = "MARKET_SELL"

\* the bounds a filter contributes to price_bound: 0 and +infinity when absent
RelativeLow(pf, avg) ==
    IF Has(pf, "PERCENT_PRICE")
    THEN FMul(105, FMul(avg, pf["PERCENT_PRICE"].multiplierDown)) ELSE 0
RelativeHigh(pf, avg) ==
    IF Has(pf, "PERCENT_PRICE")
    THEN FMul(95, FMul(avg, pf["PERCENT_PRICE"].multiplierUp)) ELSE Inf
FixedLow(pf)  == IF Has(pf, "PRICE_FILTER") THEN pf["PRICE_FILTER"].minPrice ELSE 0
FixedHigh(pf) == IF Has(pf, "PRICE_FILTER") THEN pf["PRICE_FILTER"].maxPrice ELSE Inf

\* C26: price_bound(avg) is (max(1.05*avg*multiplierDown, minPrice),
\* min(0.95*avg*multiplierUp, maxPrice)), an absent PERCENT_PRICE or
\* PRICE_FILTER contributing 0 and +infinity: the 5% margin is on the
\* relative bound only, never on the fixed one.
C26_PriceBoundFormula ==
    (fn.name = "price_bound" /\ out # NotApplied) =>
        /\ out.low = Max(RelativeLow(fn.pf, fn.avg), FixedLow(fn.pf))
        /\ out.high = Min(RelativeHigh(fn.pf, fn.avg), FixedHigh(fn.pf))

\* avg 50.00 with multipliers 0.2 / 5 and fixed bounds 10.00 / 100.00: the low
\* end is the margined relative bound 10.50, the high end the fixed bound
\* 100.00 as it is
C26_Witness ==
    /\ fn.name = "price_bound" /\ out # NotApplied
    /\ fn.avg = 5000
    /\ Has(fn.pf, "PERCENT_PRICE") /\ Has(fn.pf, "PRICE_FILTER")
    /\ fn.pf["PERCENT_PRICE"] = [multiplierUp |-> 500, multiplierDown |-> 20]
    /\ fn.pf["PRICE_FILTER"] = [minPrice |-> 1000, maxPrice |-> 10000]
    /\ out = [low |-> 1050, high |-> 10000]

\* the lot filter of the order type and the notional floor
LotMinQty(pf, market) ==
    IF ApplicableLot(pf, market) = "none" THEN 0
    ELSE pf[ApplicableLot(pf, market)].minQty
LotMaxQty(pf, market) ==
    IF ApplicableLot(pf, market) = "none" THEN Inf
    ELSE pf[ApplicableLot(pf, market)].maxQty
NotionalFloor(pf, price, market) ==
    IF Has(pf, "MIN_NOTIONAL") /\ (~market \/ pf["MIN_NOTIONAL"].applyToMarket)
    THEN FMul(FDiv(pf["MIN_NOTIONAL"].minNotional, price), 105)
    ELSE 0

\* C27: qty_bound(price, market) is (max(filterMinQty, notionalFloor),
\* filterMaxQty), the filter being MARKET_LOT_SIZE for a market order when
\* present and LOT_SIZE otherwise, an absent lot filter contributing 0 and
\* +infinity; with MIN_NOTIONAL present and no lot filter the lower bound is
\* the notional floor.
C27_QtyBoundFormula ==
    (fn.name = "qty_bound" /\ out # NotApplied) =>
        /\ out.low = Max(LotMinQty(fn.pf, fn.market),
                         NotionalFloor(fn.pf, fn.price, fn.market))
        /\ out.high = LotMaxQty(fn.pf, fn.market)

\* C27 where a lot filter applies (the part of the formula the code follows)
C27_QtyBoundFormulaWithLot ==
    (fn.name = "qty_bound" /\ out # NotApplied
        /\ ApplicableLot(fn.pf, fn.market) # "none") =>
        /\ out.low = Max(LotMinQty(fn.pf, fn.market),
                         NotionalFloor(fn.pf, fn.price, fn.market))
        /\ out.high = LotMaxQty(fn.pf, fn.market)

\* the tick precision of a step: with tsize = floor(step * 10^p), the default
\* 8 when tsize is 0, else p minus the trailing zeros of tsize
StepPrecision(step, p) ==
    LET tsize == IF p >= 8 THEN step * Pow10(p - 8) ELSE step \div Pow10(8 - p)
    IN  IF tsize = 0 THEN 8 ELSE p - TrailingZeros(tsize)

\* the three ticks of the bound pair <p>, each from the pair's own filter
TicksFollowSteps(p, tk) ==
    /\ Has(p.filters, "PRICE_FILTER") =>
           tk.price = StepPrecision(p.filters["PRICE_FILTER"].tickSize,
                                    p.quoteAssetPrecision)
    /\ Has(p.filters, "LOT_SIZE") =>
           tk.lot = StepPrecision(p.filters["LOT_SIZE"].stepSize, p.baseAssetPrecision)
    /\ IF Has(p.filters, "MARKET_LOT_SIZE")
       THEN tk.mkt_lot = StepPrecision(p.filters["MARKET_LOT_SIZE"].stepSize,
                                       p.baseAssetPrecision)
       ELSE tk.mkt_lot = tk.lot

\* C28: after set_pair, for each of the three ticks, with tsize =
\* floor(stepSize * 10^p): the tick precision is the default 8 if tsize = 0 and
\* p minus the number of trailing zeros of tsize otherwise; the market-lot
\* tick equals the lot tick when the pair has no MARKET_LOT_SIZE filter.
C28_TicksFromSteps ==
    (fn.name = "set_pair" /\ out # NotApplied) => TicksFollowSteps(fn.pair, out.ticks)

\* C28 on a BinanceAPI object that has had no pair bound before
C28_TicksFromStepsOnFreshApi ==
    (fn.name = "set_pair" /\ out # NotApplied /\ fn.api = FreshApi)
        => TicksFollowSteps(fn.pair, out.ticks)

\* C29: the filters and tick precisions in force after set_pair(P) depend on P
\* only: whatever was bound before, the filter set holds exactly the filters
\* of P and the three ticks are those set_pair(P) gives on a fresh object.
C29_BindingDependsOnPairOnly ==
    (fn.name = "set_pair" /\ out # NotApplied) =>
        /\ out.pfilt = fn.pair.filters
        /\ out.ticks = set_pair(FreshApi.pfilt, FreshApi.ticks, fn.pair).ticks

\* a lock call has taken the lock and has not yet returned
Binding(c) == cpc[c] \in {"set_pair", "use_oco", "cvar_acquire", "notify"}

\* the driver has left the wait for the coin lock and runs (or has run) start()
DriverStarted == mpc \in TradePcs \/ nstart >= 1

\* C30: the driver begins start() only after the winning lock call has bound
\* the pair, computed use_oco and set ready, and never when no lock call has
\* succeeded; a notification without ready (the stdin adapter leaving its loop)
\* sends the woken driver back to waiting; the pair is bound by the winning
\* call to its own symbol and nothing changes it, its filters, its ticks or
\* use_oco afterwards.
C30_StartOnlyAfterBinding ==
    /\ [](DriverStarted =>
            /\ ready /\ locked /\ returns.ok = 1
            /\ \A c \in Callers : ~Binding(c)
            /\ pair \in DOMAIN pairs
            /\ use_oco = (env.stop > -100 /\ pairs[pair].ocoAllowed))
    /\ [][(mpc \in WaitPcs /\ mpc' \notin WaitPcs \cup {"exit"}) =>
            (mpc = "cv_check" /\ ready /\ mpc' = "start")]_vars
    /\ [][(mpc = "cv_check" /\ ~ready /\ mpc' \notin {mpc, "exit"}) =>
            (mpc' = "cv_wait" /\ nstart' = nstart)]_vars
    /\ [][\A c \in Callers : (cpc[c] = "set_pair" /\ cpc'[c] # "set_pair") =>
            (pair' = csym[c] /\ ~ready /\ ~DriverStarted)]_vars
    /\ [][(\A c \in Callers : cpc[c] # "set_pair") =>
            UNCHANGED <<pair, pfilt, ticks>>]_vars
    /\ [][ready => UNCHANGED <<pair, pfilt, ticks, use_oco, ready>>]_vars

\* the stdin adapter has left its loop and notified without ready: the driver,
\* which was blocked in wait(), has tested the predicate again and is about to
\* wait once more; no lock call has succeeded and nothing was started
C30_Witness ==
    /\ cpc[StdinCaller] = "done" /\ returns.ok = 0 /\ ~ready
    /\ waited /\ mpc = "cv_wait" /\ nstart = 0

(***************************************************************************)
(* C31: the prices of the OCO orders.                                      *)
(***************************************************************************)
\* C31: every OCO order the engine submits has its limit price strictly
\* greater than its stop price, also after check_sell_eligibility has clipped
\* the target to the upper price bound and raised the stop to the lower one.
C31_OcoTargetAboveStop ==
    \A i \in OcoOrders : sent[i].price > sent[i].stopPrice

(***************************************************************************)
(* C32: the quantities of the sell orders.                                 *)
(***************************************************************************)
\* the sell orders received by the exchange (market, limit or OCO)
SellOrders == {i \in 1..Len(sent) : sent[i].kind \in {"MARKET_SELL", "LIMIT", "OCO"}}

\* C32: the quantity string of every sell order (market, limit or OCO),
\* rendered with the digit count of the applicable tick, never denotes more
\* than the quantity held (self.bqty as passed to the call): formatting never
\* rounds the quantity up.
C32_SellQuantityWithinHeld ==
    \A i \in SellOrders : sent[i].quantity <= sent[i].qty

=============================================================================
